---- MODULE Spec2Model ----
(***************************************************************************)
(* Model of the change-detection synchronizer of                           *)
(* reports/examples/python-integration.py: BidirectionalSync, with the     *)
(* parts of STMIntegration it calls (get_task, get_integration_fields,     *)
(* update_task_fields).                                                    *)
(*                                                                         *)
(* Python values are tagged records [t, v]; a Python str is a TLA+ string, *)
(* a Python dict is the sequence of its <<key, value>> items in insertion  *)
(* order.                                                                  *)
(***************************************************************************)
EXTENDS Integers, Sequences, FiniteSets, TLC

VARIABLES
    task,       \* the STM task of task_id, as `stm show --json` prints it
    external,   \* external_system_data, the argument of the invocations
    now,        \* the clock datetime.now() reads
    ret,        \* the sync_result the last sync_task_bidirectional returned
    before,     \* history: the task as the last invocation found it
    pc,         \* position of each concurrent invocation
    frame,      \* local variables of each concurrent invocation
    overlapped, \* history: two invocations had both read and not yet written
    task0,      \* history: the task before the concurrent invocations began
    dataA,      \* argument of the first compute_sync_hash call
    dataB,      \* argument of the second compute_sync_hash call
    hashA,      \* digest returned for dataA ("" before the call)
    hashB       \* digest returned for dataB ("" before the call)

vars == <<task, external, now, ret, before, pc, frame, overlapped, task0,
          dataA, dataB, hashA, hashB>>

-----------------------------------------------------------------------------
(* Bounds of the model *)

\* number of sequential invocations of one behaviour
MaxCalls == 2

-----------------------------------------------------------------------------
(* Python values *)

\* F(v), the value v computed once
With(v, F(_)) == CHOOSE r \in {F(x) : x \in {v}} : TRUE

PyNone == [t |-> "NoneType", v |-> ""]
PyStr(s) == [t |-> "str", v |-> s]
PyList(q) == [t |-> "list", v |-> q]
PyDict(d) == [t |-> "dict", v |-> d]

\* dict.get(key, default) on an insertion-ordered dict
DictGet(d, key, default) ==
    With(d, LAMBDA items :
        IF \E i \in 1..Len(items) : items[i][1] = key
        THEN items[CHOOSE i \in 1..Len(items) : items[i][1] = key][2]
        ELSE default)

\* set(list)
PySet(l) == {l.v[i] : i \in 1..Len(l.v)}

-----------------------------------------------------------------------------
(* Python's str ordering, used by json.dumps(sort_keys=True) *)

Alphabet == "_abcdefghijklmnopqrstuvwxyz"

\* ord(c), as a table over the characters of the keys
OrdTable == [c \in {SubSeq(Alphabet, i, i) : i \in 1..Len(Alphabet)} |->
                CHOOSE i \in 1..Len(Alphabet) : SubSeq(Alphabet, i, i) = c]
Ord(c) == OrdTable[c]

\* a < b for two strings: at the first place where they differ a has the
\* smaller character, or a has ended
CharAt(s, i) == SubSeq(s, i, i)
StrLess(a, b) ==
    \E i \in 1..Len(b) :
        /\ \A j \in 1..(i - 1) : j <= Len(a) /\ CharAt(a, j) = CharAt(b, j)
        /\ (i > Len(a) \/ Ord(CharAt(a, i)) < Ord(CharAt(b, i)))

\* insert one item into a dict whose items are sorted by key
RECURSIVE InsertItem(_, _)
InsertItem(item, sorted) ==
    IF sorted = <<>> THEN <<item>>
    ELSE IF StrLess(item[1], sorted[1][1]) THEN <<item>> \o sorted
    ELSE <<sorted[1]>> \o InsertItem(item, Tail(sorted))

\* sorted(d.items()): the items of a dict ordered by key
SortItemsAsInserted(d) == d
RECURSIVE SortItems(_)
SortItems(d) ==
    IF d = <<>> THEN <<>>
    ELSE With(SortItems(Tail(d)), LAMBDA rest : InsertItem(d[1], rest))

-----------------------------------------------------------------------------
(* json.dumps *)

\* ", ".join(parts), from the i-th part on
RECURSIVE JoinFrom(_, _)
JoinFrom(parts, i) ==
    IF i > Len(parts) THEN ""
    ELSE IF i = Len(parts) THEN parts[i]
    ELSE parts[i] \o ", " \o JoinFrom(parts, i + 1)

Join(parts) == With(<<>> \o parts, LAMBDA p : JoinFrom(p, 1))

Quote(s) == "\"" \o s \o "\""

\* json.dumps(value, sort_keys=sort_keys) of a Python value
RECURSIVE json_value(_, _)
json_value(value, sort_keys) ==
    With(value, LAMBDA x :
        CASE x.t = "NoneType" -> "null"
          [] x.t = "str" -> Quote(x.v)
          [] x.t = "list" ->
                "[" \o Join([i \in 1..Len(x.v) |-> json_value(x.v[i], sort_keys)]) \o "]"
          [] x.t = "dict" ->
                With(IF sort_keys THEN SortItems(x.v) ELSE x.v, LAMBDA items :
                    "{" \o Join([i \in 1..Len(items) |->
                                   Quote(items[i][1]) \o ": "
                                     \o json_value(items[i][2], sort_keys)]) \o "}"))

\* json.dumps(data, sort_keys=sort_keys) of a dict
json_dumps(data, sort_keys) == json_value(PyDict(data), sort_keys)

\* hashlib.sha256(text.encode()).hexdigest()[:16].  SHA-256 is taken to be
\* collision free on the texts of the model: the digest of a text is that
\* text marked as a digest; it is never empty and starts with a hex digit.
sha256_hexdigest16(text) == "0x" \o text

\* BidirectionalSync.compute_sync_hash
compute_sync_hash(data) ==
    With(data, LAMBDA d : PyStr(sha256_hexdigest16(json_dumps(d, TRUE))))

-----------------------------------------------------------------------------
(* Inputs of the model *)

Titles == {"a", "b"}
Statuses == {"pending", "done"}

\* tag lists of a task: none, or two names
TagLists == {<<>>, <<PyStr("x"), PyStr("y")>>}

\* label lists of the external system: the same, and the two names swapped
LabelLists == TagLists \cup {<<PyStr("y"), PyStr("x")>>}

\* the core fields of an STM task
CoreFields ==
    {<< <<"title", PyStr(ti)>>, <<"status", PyStr(st)>>, <<"tags", PyList(tg)>> >> :
        ti \in Titles, st \in Statuses, tg \in TagLists}

\* external_system_data with its labels
LabelledInputs ==
    {<< <<"title", PyStr(ti)>>, <<"status", PyStr(st)>>, <<"labels", PyList(tg)>> >> :
        ti \in Titles, st \in Statuses, tg \in LabelLists}

\* external_system_data: with its labels, or without the "labels" key
ExternalInputs ==
    LabelledInputs
    \cup {<< <<"title", PyStr(ti)>>, <<"status", PyStr(st)>> >> :
        ti \in Titles, st \in Statuses}

-----------------------------------------------------------------------------
(* STMIntegration *)

\* BidirectionalSync.__init__: field_prefix="sync"
field_prefix == "sync"

\* str.startswith
StartsWith(s, p) == Len(s) >= Len(p) /\ SubSeq(s, 1, Len(p)) = p

\* json.loads on the texts json.dumps writes for the values of the model;
\* any other text raises JSONDecodeError
JsonTexts == [e \in ExternalInputs |-> json_dumps(e, FALSE)]
JsonDecodable(text) == \E e \in ExternalInputs : JsonTexts[e] = text
json_loads(text) == PyDict(CHOOSE e \in ExternalInputs : JsonTexts[e] = text)

\* `stm show <id> --json`: the task as the CLI holds it
run_stm_show(t) == t

\* `stm update <id> name=value ...`: each named field is set to the text
\* given, a new field after the fields the task has
run_stm_update(stored, arguments) ==
    With(stored, LAMBDA t : With(<<>> \o arguments, LAMBDA args :
        LET Given(name) == \E j \in 1..Len(args) : args[j][1] = name
            Value(name) == PyStr(args[CHOOSE j \in 1..Len(args) : args[j][1] = name][2])
            Has(name) == \E i \in 1..Len(t) : t[i][1] = name
            added == SelectSeq(args, LAMBDA a : ~Has(a[1]))
        IN [i \in 1..Len(t) |->
               IF Given(t[i][1]) THEN <<t[i][1], Value(t[i][1])>> ELSE t[i]]
           \o [j \in 1..Len(added) |-> <<added[j][1], PyStr(added[j][2])>>]))

\* STMIntegration.get_task
get_task(t) == run_stm_show(t)

\* the text update_task_fields writes for one value
FieldValue(value) ==
    With(value, LAMBDA x :
        IF x.t \in {"dict", "list"} THEN json_value(x, FALSE)
        ELSE IF x.t = "bool" THEN (IF x.v = "True" THEN "true" ELSE "false")
        ELSE IF x.t = "NoneType" THEN "None"
        ELSE x.v)

\* STMIntegration.update_task_fields: the task after the update.  An
\* argument "name=value" is kept as the pair <<name, value>>.
update_task_fields(t, fields) ==
    With(fields, LAMBDA fs :
        run_stm_update(t, [i \in 1..Len(fs) |->
            <<field_prefix \o "_" \o fs[i][1], FieldValue(fs[i][2])>>]))

\* the value get_integration_fields returns for one stored value
DecodeValue(value) ==
    With(value, LAMBDA x :
        IF x.t = "str" /\ (StartsWith(x.v, "{") \/ StartsWith(x.v, "["))
        THEN (IF JsonDecodable(x.v) THEN json_loads(x.v) ELSE x)
        ELSE x)

\* STMIntegration.get_integration_fields
get_integration_fields(t) ==
    LET prefix == field_prefix \o "_" IN
    With(SelectSeq(t, LAMBDA item : StartsWith(item[1], prefix)), LAMBDA own :
        <<>> \o [i \in 1..Len(own) |->
                    <<SubSeq(own[i][1], Len(prefix) + 1, Len(own[i][1])),
                      DecodeValue(own[i][2])>>])

-----------------------------------------------------------------------------
(* BidirectionalSync.sync_task_bidirectional *)

\* datetime.isoformat() of the clock value n
isoformat(n) == PyStr("t" \o ToString(n))

\* sync_result as line 346 builds it
NewSyncResult == [stm_updated |-> FALSE, external_updated |-> FALSE, conflicts |-> <<>>]

\* stm_data, lines 332-336
StmData(stm_task) ==
    << <<"title", DictGet(stm_task, "title", PyNone)>>,
       <<"status", DictGet(stm_task, "status", PyNone)>>,
       <<"tags", DictGet(stm_task, "tags", PyList(<<>>))>> >>

\* external_data, lines 339-343
ExternalData(external_system_data) ==
    << <<"title", DictGet(external_system_data, "title", PyNone)>>,
       <<"status", DictGet(external_system_data, "status", PyNone)>>,
       <<"labels", DictGet(external_system_data, "labels", PyList(<<>>))>> >>

\* the conflicts of the external-only branch, lines 365-376
ExternalConflictsFirstOnly(external_data, stm_data) ==
    IF DictGet(external_data, "title", PyNone) # DictGet(stm_data, "title", PyNone)
    THEN <<"Title update requires manual intervention">>
    ELSE IF DictGet(external_data, "status", PyNone) # DictGet(stm_data, "status", PyNone)
    THEN <<"Status update requires manual intervention">>
    ELSE IF PySet(DictGet(external_data, "labels", PyNone))
              # PySet(DictGet(stm_data, "tags", PyNone))
    THEN <<"Tags update requires manual intervention">>
    ELSE <<>>
ExternalConflicts(external_data, stm_data) ==
    (IF DictGet(external_data, "title", PyNone) # DictGet(stm_data, "title", PyNone)
     THEN <<"Title update requires manual intervention">> ELSE <<>>)
    \o
    (IF DictGet(external_data, "status", PyNone) # DictGet(stm_data, "status", PyNone)
     THEN <<"Status update requires manual intervention">> ELSE <<>>)
    \o
    (IF PySet(DictGet(external_data, "labels", PyNone))
          # PySet(DictGet(stm_data, "tags", PyNone))
     THEN <<"Tags update requires manual intervention">> ELSE <<>>)

\* What one invocation does after its reads: the sync_result it returns
\* and the fields of its update_task_fields call (calls is empty when it
\* makes none).

Outcome(sync_result, calls) == [sync_result |-> sync_result, calls |-> calls]

\* lines 356-359: both sides changed
BothChangedTouching(current_stm_hash, current_external_hash, clock) ==
    Outcome([NewSyncResult EXCEPT
                 !.conflicts = <<"Both STM and external system have changes">>],
            << << <<"last_external_sync", isoformat(clock)>> >> >>)
BothChangedAdopting(current_stm_hash, current_external_hash, clock) ==
    Outcome([NewSyncResult EXCEPT
                 !.conflicts = <<"Both STM and external system have changes">>],
            << << <<"last_stm_hash", current_stm_hash>>,
                  <<"last_external_hash", current_external_hash>> >> >>)
BothChanged(current_stm_hash, current_external_hash, clock) ==
    Outcome([NewSyncResult EXCEPT
                 !.conflicts = <<"Both STM and external system have changes">>],
            <<>>)

\* lines 361-386: only the external side changed
ExternalChangedUnflagged(external_system_data, external_data, stm_data, current_external_hash, clock) ==
    Outcome([NewSyncResult EXCEPT
                 !.conflicts = ExternalConflicts(external_data, stm_data)],
            << << <<"last_external_hash", current_external_hash>>,
                  <<"last_external_sync", isoformat(clock)>>,
                  <<"external_data", PyDict(external_system_data)>> >> >>)
ExternalChangedGuarded(external_system_data, external_data, stm_data, current_external_hash, clock) ==
    Outcome([NewSyncResult EXCEPT
                 !.conflicts = ExternalConflicts(external_data, stm_data),
                 !.stm_updated = TRUE],
            IF ExternalConflicts(external_data, stm_data) = <<>>
            THEN <<>>
            ELSE << << <<"last_external_hash", current_external_hash>>,
                       <<"last_external_sync", isoformat(clock)>>,
                       <<"external_data", PyDict(external_system_data)>> >> >>)
ExternalChanged(external_system_data, external_data, stm_data, current_external_hash, clock) ==
    Outcome([NewSyncResult EXCEPT
                 !.conflicts = ExternalConflicts(external_data, stm_data),
                 !.stm_updated = TRUE],
            << << <<"last_external_hash", current_external_hash>>,
                  <<"last_external_sync", isoformat(clock)>>,
                  <<"external_data", PyDict(external_system_data)>> >> >>)

\* lines 388-397: only the STM side changed
StmChangedBothHashes(current_stm_hash, current_external_hash, clock) ==
    Outcome([NewSyncResult EXCEPT !.external_updated = TRUE],
            << << <<"last_stm_hash", current_stm_hash>>,
                  <<"last_external_hash", current_stm_hash>>,
                  <<"last_external_sync", isoformat(clock)>> >> >>)
StmChangedNoWrite(current_stm_hash, current_external_hash, clock) ==
    Outcome([NewSyncResult EXCEPT !.external_updated = TRUE], <<>>)
StmChanged(current_stm_hash, current_external_hash, clock) ==
    Outcome([NewSyncResult EXCEPT !.external_updated = TRUE],
            << << <<"last_stm_hash", current_stm_hash>>,
                  <<"last_external_sync", isoformat(clock)>> >> >>)

\* lines 399-401: no changes on either side
NoChangesTouching(clock) ==
    Outcome(NewSyncResult, << << <<"last_external_sync", isoformat(clock)>> >> >>)
NoChanges(clock) == Outcome(NewSyncResult, <<>>)

\* The body of sync_task_bidirectional from the task get_task returned to
\* its return, the call of update_task_fields left to the caller of this
\* operator.  clock is what datetime.now() reads.
Classify(stm_task, external_system_data, clock) ==
    With(get_integration_fields(stm_task), LAMBDA sync_fields :
    With(StmData(stm_task), LAMBDA stm_data :
    With(ExternalData(external_system_data), LAMBDA external_data :
    With(compute_sync_hash(stm_data), LAMBDA current_stm_hash :
    With(compute_sync_hash(external_data), LAMBDA current_external_hash :
    With(current_stm_hash # DictGet(sync_fields, "last_stm_hash", PyStr("")),
         LAMBDA stm_changed :
    With(current_external_hash # DictGet(sync_fields, "last_external_hash", PyStr("")),
         LAMBDA external_changed :
        IF stm_changed /\ external_changed THEN
            BothChanged(current_stm_hash, current_external_hash, clock)
        ELSE IF external_changed /\ ~stm_changed THEN
            ExternalChanged(external_system_data, external_data, stm_data,
                            current_external_hash, clock)
        ELSE IF stm_changed /\ ~external_changed THEN
            StmChanged(current_stm_hash, current_external_hash, clock)
        ELSE
            NoChanges(clock))))))))

\* the task after the update_task_fields calls of one invocation
RECURSIVE ApplyCalls(_, _)
ApplyCalls(t, calls) ==
    IF calls = <<>> THEN t
    ELSE ApplyCalls(update_task_fields(t, Head(calls)), Tail(calls))

-----------------------------------------------------------------------------
(* States the task can be in before an invocation *)

NoValue == <<>>

\* The sync fields earlier one-sided steps left on a task: those of a
\* local-only step for the core fields prevStm and of an external-only step
\* for the external data prevExt (NoValue: no such step was taken).
SeedCalls(prevStm, prevExt) ==
    (IF prevStm = NoValue THEN <<>>
     ELSE << << <<"last_stm_hash", compute_sync_hash(StmData(prevStm))>>,
                <<"last_external_sync", isoformat(0)>> >> >>)
    \o
    (IF prevExt = NoValue THEN <<>>
     ELSE << << <<"last_external_hash", compute_sync_hash(ExternalData(prevExt))>>,
                <<"last_external_sync", isoformat(0)>>,
                <<"external_data", PyDict(prevExt)>> >> >>)

SeededTasksOf(cores, exts) ==
    {ApplyCalls(core, SeedCalls(prevStm, prevExt)) :
        core \in cores,
        prevStm \in cores \cup {NoValue},
        prevExt \in exts \cup {NoValue}}

SeededTasks == SeededTasksOf(CoreFields, LabelledInputs)

Procs == {1, 2}

NoFrame == [stm_task |-> <<>>, sync_result |-> NewSyncResult]

InitRest ==
    /\ now = 0
    /\ ret = NewSyncResult
    /\ before = task
    /\ pc = [p \in Procs |-> "idle"]
    /\ frame = [p \in Procs |-> NoFrame]
    /\ overlapped = FALSE
    /\ task0 = task
    /\ dataA = <<>>
    /\ dataB = <<>>
    /\ hashA = PyStr("")
    /\ hashB = PyStr("")

Init ==
    /\ task \in SeededTasks
    /\ external \in ExternalInputs
    /\ InitRest

-----------------------------------------------------------------------------
(* One invocation at a time *)

\* sync_task_bidirectional(task_id, external), start to return
Sync ==
    /\ now < MaxCalls
    /\ \E r \in {Classify(get_task(task), external, now + 1)} :
          /\ task' = ApplyCalls(task, r.calls)
          /\ ret' = r.sync_result
    /\ before' = task
    /\ now' = now + 1
    /\ UNCHANGED <<external, pc, frame, overlapped, task0, dataA, dataB, hashA, hashB>>

Next == Sync

Spec == Init /\ [][Next]_vars

-----------------------------------------------------------------------------
(* Two invocations for the same task, with no lock between them.  An
   invocation touches the task twice: get_task reads it (line 324) and
   update_task_fields writes it (lines 385, 394); all else is local. *)

\* the tasks and external data of the concurrent runs: those of status pending
PendingCore == {c \in CoreFields : DictGet(c, "status", PyNone) = PyStr("pending")}
PendingExternal ==
    {e \in ExternalInputs : DictGet(e, "status", PyNone) = PyStr("pending")}
PendingLabelled == PendingExternal \cap LabelledInputs

InitConc ==
    /\ task \in SeededTasksOf(PendingCore, PendingLabelled)
    /\ external \in PendingExternal
    /\ InitRest

\* lines 324-325 with a get_task that answers from a cache filled at start
ReadCached(p) ==
    /\ pc[p] = "idle"
    /\ frame' = [frame EXCEPT ![p].stm_task = get_task(task0)]
    /\ pc' = [pc EXCEPT ![p] = "read"]
    /\ overlapped' = (overlapped \/ \E q \in Procs \ {p} : pc[q] = "read")
    /\ UNCHANGED <<task, external, now, ret, before, task0, dataA, dataB, hashA, hashB>>

\* lines 324-325: stm_task = self.get_task(task_id)
Read(p) ==
    /\ pc[p] = "idle"
    /\ frame' = [frame EXCEPT ![p].stm_task = get_task(task)]
    /\ pc' = [pc EXCEPT ![p] = "read"]
    /\ overlapped' = (overlapped \/ \E q \in Procs \ {p} : pc[q] = "read")
    /\ UNCHANGED <<task, external, now, ret, before, task0, dataA, dataB, hashA, hashB>>

\* lines 327-403: classify what was read, write the sync fields, return
WriteAndReturn(p) ==
    /\ pc[p] = "read"
    /\ \E r \in {Classify(frame[p].stm_task, external, now + 1)} :
          /\ task' = ApplyCalls(task, r.calls)
          /\ frame' = [frame EXCEPT ![p].sync_result = r.sync_result]
    /\ pc' = [pc EXCEPT ![p] = "done"]
    /\ now' = now + 1
    /\ UNCHANGED <<external, ret, before, overlapped, task0, dataA, dataB, hashA, hashB>>

NextConc == \E p \in Procs : Read(p) \/ WriteAndReturn(p)

SpecConc == InitConc /\ [][NextConc]_vars

-----------------------------------------------------------------------------
(* compute_sync_hash on two dicts *)

\* the orders in which n keys can have been inserted
Perms(n) == {f \in [1..n -> 1..n] : \A i, j \in 1..n : f[i] = f[j] => i = j}
Reordered(d, f) == [i \in 1..Len(d) |-> d[f[i]]]

\* the snapshots as sync_task_bidirectional builds them
Snapshots ==
    {StmData(c) : c \in CoreFields} \cup {ExternalData(e) : e \in ExternalInputs}

\* the same snapshots with their keys inserted in any order
HashInputs == {Reordered(d, f) : d \in Snapshots, f \in Perms(3)}

DefaultTask ==
    << <<"title", PyStr("a")>>, <<"status", PyStr("pending")>>, <<"tags", PyList(<<>>)>> >>

InitHash ==
    /\ task = DefaultTask
    /\ external = << <<"title", PyStr("a")>>, <<"status", PyStr("pending")>> >>
    /\ now = 0
    /\ ret = NewSyncResult
    /\ before = task
    /\ pc = [p \in Procs |-> "idle"]
    /\ frame = [p \in Procs |-> NoFrame]
    /\ overlapped = FALSE
    /\ task0 = task
    /\ dataA \in Snapshots
    /\ dataB \in HashInputs
    /\ hashA = PyStr("")
    /\ hashB = PyStr("")

HashA ==
    /\ hashA = PyStr("")
    /\ hashA' = compute_sync_hash(dataA)
    /\ UNCHANGED <<task, external, now, ret, before, pc, frame, overlapped, task0,
                   dataA, dataB, hashB>>

HashB ==
    /\ hashB = PyStr("")
    /\ hashB' = compute_sync_hash(dataB)
    /\ UNCHANGED <<task, external, now, ret, before, pc, frame, overlapped, task0,
                   dataA, dataB, hashA>>

NextHash == HashA \/ HashB

SpecHash == InitHash /\ [][NextHash]_vars

-----------------------------------------------------------------------------
(* Properties of one invocation at a time.  They read the stored fields off
   the task itself, and compare the task the invocation found (before) with
   the task it left (task). *)

\* a field of the task as stored, "" when the task has no such field
Stored(t, name) == DictGet(t, name, PyStr(""))

StmHashOf(t) == compute_sync_hash(StmData(t))
ExternalHash == compute_sync_hash(ExternalData(external))

Called == now > 0
StmSideChanged == StmHashOf(before) # Stored(before, "sync_last_stm_hash")
ExternalSideChanged == ExternalHash # Stored(before, "sync_last_external_hash")
HasSyncState(t) ==
    /\ Stored(t, "sync_last_stm_hash") # PyStr("")
    /\ Stored(t, "sync_last_external_hash") # PyStr("")

\* C1: when both the local and the external hash differ from the stored
\* hashes, the invocation leaves the task (hashes, timestamp and all)
\* as it found it and returns both flags false and exactly one conflict.
C1_ConflictLeavesSyncState ==
    (Called /\ StmSideChanged /\ ExternalSideChanged) =>
        /\ task = before
        /\ ret.stm_updated = FALSE
        /\ ret.external_updated = FALSE
        /\ Len(ret.conflicts) = 1

C1_Witness ==
    /\ Called /\ StmSideChanged /\ ExternalSideChanged
    /\ HasSyncState(before)
    /\ Stored(before, "sync_last_external_sync") # PyStr("")

\* C2 as claimed: on an external-only change both flags of the result
\* are false.
C2_AsClaimed ==
    (Called /\ ~StmSideChanged /\ ExternalSideChanged) =>
        (ret.stm_updated = FALSE /\ ret.external_updated = FALSE)

\* C2 amended: on an external-only change the result has stm_updated
\* true and external_updated false.
C2_ExternalOnlyFlags ==
    (Called /\ ~StmSideChanged /\ ExternalSideChanged) =>
        (ret.stm_updated = TRUE /\ ret.external_updated = FALSE)

C2_Witness ==
    /\ Called /\ ~StmSideChanged /\ ExternalSideChanged
    /\ ret.stm_updated

\* C3: on an external-only change the stored external hash becomes the
\* hash of the current external snapshot and the timestamp is set to the
\* time of the invocation, whether or not a field differs, and the stored
\* local hash keeps its value.
C3_ExternalOnlyMetadata ==
    (Called /\ ~StmSideChanged /\ ExternalSideChanged) =>
        /\ Stored(task, "sync_last_external_hash") = ExternalHash
        /\ Stored(task, "sync_last_external_sync") = isoformat(now)
        /\ Stored(task, "sync_last_external_sync")
             # Stored(before, "sync_last_external_sync")
        /\ Stored(task, "sync_last_stm_hash") = Stored(before, "sync_last_stm_hash")

\* an external-only change in which no field differs from the local snapshot
C3_Witness ==
    /\ Called /\ ~StmSideChanged /\ ExternalSideChanged
    /\ ret.conflicts = <<>>
    /\ Stored(before, "sync_last_external_hash") # PyStr("")
    /\ Stored(task, "sync_last_external_hash")
         # Stored(before, "sync_last_external_hash")

\* C4: on a local-only change the result is stm_updated false,
\* external_updated true, no conflicts; the stored local hash becomes the
\* hash of the current local snapshot and the stored external hash keeps
\* its value.
C4_LocalOnly ==
    (Called /\ StmSideChanged /\ ~ExternalSideChanged) =>
        /\ ret = [stm_updated |-> FALSE, external_updated |-> TRUE, conflicts |-> <<>>]
        /\ Stored(task, "sync_last_stm_hash") = StmHashOf(before)
        /\ Stored(task, "sync_last_external_hash")
             = Stored(before, "sync_last_external_hash")

C4_Witness ==
    /\ Called /\ StmSideChanged /\ ~ExternalSideChanged
    /\ Stored(before, "sync_last_stm_hash") # PyStr("")
    /\ Stored(task, "sync_last_stm_hash") # Stored(before, "sync_last_stm_hash")

\* C5: when neither hash differs from its stored hash the invocation
\* leaves the task as it found it and returns both flags false and no
\* conflict.
C5_InSyncNoMutation ==
    (Called /\ ~StmSideChanged /\ ~ExternalSideChanged) =>
        /\ task = before
        /\ ret = [stm_updated |-> FALSE, external_updated |-> FALSE, conflicts |-> <<>>]

C5_Witness ==
    /\ now = 1 /\ ~StmSideChanged /\ ~ExternalSideChanged
    /\ HasSyncState(task)

\* the fields of the external data that differ from the local task, tags
\* and labels compared as sets
TitleDiffers == DictGet(external, "title", PyNone) # DictGet(before, "title", PyNone)
StatusDiffers == DictGet(external, "status", PyNone) # DictGet(before, "status", PyNone)
TagsDiffer ==
    PySet(DictGet(external, "labels", PyList(<<>>)))
        # PySet(DictGet(before, "tags", PyList(<<>>)))

\* C6: on an external-only change the conflict list holds one entry for
\* each of title, status and tags that differs between the external and the
\* local snapshot, in that order, and none for a field that does not differ;
\* so it is non-empty exactly when some field differs.
C6_ExternalOnlyConflicts ==
    (Called /\ ~StmSideChanged /\ ExternalSideChanged) =>
        /\ ret.conflicts =
               SelectSeq(<<"Title update requires manual intervention",
                           "Status update requires manual intervention",
                           "Tags update requires manual intervention">>,
                         LAMBDA m :
                            \/ m = "Title update requires manual intervention"
                                 /\ TitleDiffers
                            \/ m = "Status update requires manual intervention"
                                 /\ StatusDiffers
                            \/ m = "Tags update requires manual intervention"
                                 /\ TagsDiffer)
        /\ (ret.conflicts # <<>>) <=> (TitleDiffers \/ StatusDiffers \/ TagsDiffer)

\* an external-only change in which all three fields differ
C6_Witness ==
    /\ Called /\ ~StmSideChanged /\ ExternalSideChanged
    /\ TitleDiffers /\ StatusDiffers /\ TagsDiffer
    /\ Len(ret.conflicts) = 3

\* C9: an invocation that follows one that took the external-only or the
\* local-only branch, with the same local fields and the same external data,
\* returns both flags false and no conflict and writes nothing.
C9_OneSidedStepReachesInSync ==
    [][(/\ now' # now
        /\ Called
        /\ (ret.stm_updated \/ ret.external_updated)
        /\ external' = external
        /\ StmData(task') = StmData(before))
       => (ret' = NewSyncResult /\ task' = task)]_vars

C9_Witness ==
    /\ now >= 2
    /\ before # task0
    /\ task = before
    /\ ret = NewSyncResult

\* a task with no stored SyncState
Fresh(t) ==
    /\ \A i \in 1..Len(t) : t[i][1] \notin {"sync_last_stm_hash", "sync_last_external_hash"}

\* C10: on a task with no stored hashes every invocation returns the single
\* both-changed conflict and writes nothing, so the stored hashes stay empty
\* however many invocations are made.
C10_FreshTaskNeverLeavesConflict ==
    Fresh(task0) =>
        /\ task = task0
        /\ Stored(task, "sync_last_stm_hash") = PyStr("")
        /\ Stored(task, "sync_last_external_hash") = PyStr("")
        /\ Called =>
              ret = [stm_updated |-> FALSE, external_updated |-> FALSE,
                     conflicts |-> <<"Both STM and external system have changes">>]

C10_Witness ==
    /\ Fresh(task0)
    /\ now >= 2
    /\ ret.conflicts = <<"Both STM and external system have changes">>

-----------------------------------------------------------------------------
(* Properties of two concurrent invocations *)

AllDone == \A p \in Procs : pc[p] = "done"

\* what the invocations p then q leave when q starts after p has returned
SerialFirst == Classify(task0, external, 1)
SerialMiddle == ApplyCalls(task0, SerialFirst.calls)
SerialSecond == Classify(SerialMiddle, external, 2)
SerialFinal == ApplyCalls(SerialMiddle, SerialSecond.calls)

\* the results and the final task are those of one of the serial orders
Serializable ==
    \E p \in Procs : \E q \in Procs \ {p} :
        /\ frame[p].sync_result = SerialFirst.sync_result
        /\ frame[q].sync_result = SerialSecond.sync_result
        /\ task = SerialFinal

\* the results alone are those of one of the serial orders
SerialResults ==
    \E p \in Procs : \E q \in Procs \ {p} :
        /\ frame[p].sync_result = SerialFirst.sync_result
        /\ frame[q].sync_result = SerialSecond.sync_result

\* C8: two invocations that ran one at a time (neither read while the
\* other was between its read and its write) leave the results and the
\* SyncState of a serial order; the witness is two invocations that both
\* read before either wrote and return results no serial order returns.
C8_OneAtATimeIsSerial ==
    (AllDone /\ ~overlapped) => Serializable

C8_Witness ==
    /\ AllDone
    /\ overlapped
    /\ ~SerialResults

-----------------------------------------------------------------------------
(* Properties of compute_sync_hash *)

SameItems(a, b) ==
    /\ Len(a) = Len(b)
    /\ {a[i] : i \in 1..Len(a)} = {b[i] : i \in 1..Len(b)}

\* C7: two dicts with the same key/value pairs have the same digest,
\* whatever the order in which their keys were inserted.
C7_HashOrderIndependent ==
    (hashA # PyStr("") /\ hashB # PyStr("") /\ SameItems(dataA, dataB)) =>
        hashA = hashB

C7_Witness ==
    /\ hashA # PyStr("") /\ hashB # PyStr("")
    /\ SameItems(dataA, dataB)
    /\ dataA # dataB
    /\ hashA = hashB

====
